---- MODULE Spec2Model ----
(***************************************************************************)
(* Model of corvil_extract.py: the `extract` run of main() as a state      *)
(* machine over the output directory, the external commands it executes,   *)
(* the alerts it sends and the process exit status; verify_cols and its    *)
(* helpers as operators.                                                    *)
(*                                                                         *)
(* Text is modelled as a sequence of one-character strings, a file as a    *)
(* sequence of lines (each line keeps its terminating newline).            *)
(***************************************************************************)
EXTENDS Integers, Sequences, FiniteSets, TLC

VARIABLES
    args,              \* the parsed command line (argparse namespace)
    operating_system,  \* "linux" | "windows" (os.name)
    files,             \* names of the regular files that exist
    data,              \* file name -> its lines (<<>> when absent or irrelevant)
    files0,            \* the files that existed when the run started
    data0,             \* and what they held
    pc,                \* position of main()
    cmds,              \* external commands executed so far, in order
    alerts,            \* alert mails handed to sendmail, in order
    ret,               \* what the last verify_cols call returned and logged
    manifests,         \* manifest files written: [name, record]
    exc,               \* exception that ended main(), "none" otherwise
    exit_status,       \* process exit status, -1 while running
    computed,          \* value computed by the specifications of one function
    trace              \* the stages of main() entered so far, in order

vars == <<args, operating_system, files, data, files0, data0, pc, cmds, alerts, ret,
          manifests, exc, exit_status, computed, trace>>

-----------------------------------------------------------------------------
(* Bounds of the model *)

\* longest header row (in characters) given to verify_cols in SpecVerify
MaxLen == 3

\* longest expected column list given to verify_cols in SpecVerify
MaxCols == 2

-----------------------------------------------------------------------------
(* Text helpers *)

NL == "\n"
COMMA == ","

\* str.split(sep): the pieces between separators; "" splits to [""].
RECURSIVE SplitFrom(_, _, _, _, _)
SplitFrom(s, sep, i, cur, acc) ==
    IF i > Len(s) THEN Append(acc, cur)
    ELSE IF s[i] = sep THEN SplitFrom(s, sep, i + 1, <<>>, Append(acc, cur))
    ELSE SplitFrom(s, sep, i + 1, Append(cur, s[i]), acc)

split(s, sep) == SplitFrom(s, sep, 1, <<>>, <<>>)

\* str.strip("\n"): drops every leading and trailing newline.
RECURSIVE lstrip(_, _)
lstrip(s, ch) == IF s # <<>> /\ Head(s) = ch THEN lstrip(Tail(s), ch) ELSE s

RECURSIVE rstrip(_, _)
rstrip(s, ch) ==
    IF s # <<>> /\ s[Len(s)] = ch THEN rstrip(SubSeq(s, 1, Len(s) - 1), ch) ELSE s

strip(s, ch) == rstrip(lstrip(s, ch), ch)

\* ",".join(names)
RECURSIVE join(_, _)
join(sep, names) ==
    IF names = <<>> THEN <<>>
    ELSE IF Len(names) = 1 THEN names[1]
    ELSE names[1] \o <<sep>> \o join(sep, Tail(names))

\* f.readline() on a freshly opened file: the first line, "" at end of file.
readline(lines) == IF lines = <<>> THEN <<>> ELSE lines[1]

-----------------------------------------------------------------------------
(* verify_cols *)

\* The while loop of verify_cols: index (0-based) of the first position at
\* which the two equally long lists differ, -1 when there is none; the loop
\* breaks at the first mismatch.
RECURSIVE first_mismatch(_, _, _)
first_mismatch(col_list, verify_field_list, i) ==
    IF i >= Len(verify_field_list) THEN 0 - 1
    ELSE IF col_list[i + 1] # verify_field_list[i + 1] THEN i
    ELSE first_mismatch(col_list, verify_field_list, i + 1)

\* variant: the 0-based index is logged
PositionReported_off_by_one(i) == i

\* the position written to the log for a mismatch at 0-based index i
PositionReported(i) == i + 1

\* the column count check
CountsDiffer(verify_field_list, col_list) ==
    Len(verify_field_list) # Len(col_list)

\* The comparison part of verify_cols: the header row read from the
\* verification file, split on comma and compared with the expected list.
\* verified: the result; log: the mismatch lines written to the log.
compare_cols(header_lines, verify_field_list) ==
    LET header_row == strip(readline(header_lines), NL)
        col_list   == split(header_row, COMMA)
    IN  IF CountsDiffer(verify_field_list, col_list)
        THEN [verified |-> FALSE,
              col_list |-> col_list,
              log      |-> << <<"Column count mismatch",
                                Len(verify_field_list), Len(col_list)>> >>]
        ELSE LET i == first_mismatch(col_list, verify_field_list, 0)
             IN  IF i >= 0
                 THEN [verified |-> FALSE,
                       col_list |-> col_list,
                       log      |-> << <<"Column mismatch at position",
                                         PositionReported(i),
                                         verify_field_list[i + 1],
                                         col_list[i + 1]>> >>]
                 ELSE [verified |-> TRUE, col_list |-> col_list, log |-> <<>>]

-----------------------------------------------------------------------------
(* Configuration (ref_corvil.yaml) and the catalog *)

ts  == <<"t", "s">>
px  == <<"p", "x">>
qty == <<"q", "t", "y">>

\* One market; E1 is complete, E2 has an empty rt-class, E3 lacks its
\* decoder_extracts key.
corvilConfig ==
    [markets |->
        [M1 |-> [extracts |->
            [E1 |-> [k \in {"cne", "rt-class", "decoder_extracts"} |->
                        CASE k = "cne" -> "cne1"
                          [] k = "rt-class" -> "C1"
                          [] k = "decoder_extracts" -> "D1"],
             E2 |-> [k \in {"cne", "rt-class", "decoder_extracts"} |->
                        CASE k = "cne" -> "cne1"
                          [] k = "rt-class" -> ""
                          [] k = "decoder_extracts" -> "D1"],
             E3 |-> [k \in {"cne", "rt-class"} |->
                        CASE k = "cne" -> "cne1"
                          [] k = "rt-class" -> "C3"]]]],
     decoder_extracts |->
        [D1 |-> [extract_fields |-> <<px, qty>>,
                 corvil_added_fields |-> <<ts>>]],
     corvil |-> [prod |-> [cne |-> [cne1 |-> [ip |-> "10.0.0.5"]]]]]

\* variant: only the presence of the key is looked at
missing_only(properties, key) == key \notin DOMAIN properties

\* "key not in properties or len(properties[key]) == 0"
missing_or_empty(properties, key) ==
    key \notin DOMAIN properties \/ properties[key] = ""

entry_complete(properties) ==
    /\ ~missing_or_empty(properties, "cne")
    /\ ~missing_or_empty(properties, "rt-class")
    /\ ~missing_or_empty(properties, "decoder_extracts")

get_valid_extracts(config) ==
    [key \in {k \in DOMAIN config.markets : "extracts" \in DOMAIN config.markets[k]} |->
        [extract \in {e \in DOMAIN config.markets[key].extracts :
                          entry_complete(config.markets[key].extracts[e])} |->
            config.markets[key].extracts[extract]]]

valid_extracts == get_valid_extracts(corvilConfig)

environment == "prod"

properties_of(a) == valid_extracts[a.mic][a.extract_name]
cne_of(a) == properties_of(a)["cne"]
ip_address(a) == corvilConfig.corvil[environment].cne[cne_of(a)].ip
rt_class(a) == properties_of(a)["rt-class"]
decoder_extract(a) == properties_of(a)["decoder_extracts"]

extract_fields(a) ==
    corvilConfig.decoder_extracts[decoder_extract(a)].extract_fields

\* field_list = ",".join(extract_fields)
field_list(a) == join(COMMA, extract_fields(a))

corvil_added_fields(a) ==
    corvilConfig.decoder_extracts[decoder_extract(a)].corvil_added_fields

\* str.replace(ch, ""): every occurrence of the character removed
remove_char(s, ch) == SelectSeq(s, LAMBDA c : c # ch)

\* temp_field_list = field_list.replace('"', "")
temp_field_list(fl) == remove_char(fl, "\"")

\* variant: the extract's fields come first
expected_column_list_fields_first(added, fl) ==
    split(temp_field_list(fl), COMMA) \o added

\* corvil_added_fields.copy() + temp_field_list.split(",")
expected_column_list(added, fl) ==
    added \o split(temp_field_list(fl), COMMA)

verify_field_list(a) ==
    expected_column_list(corvil_added_fields(a), field_list(a))

-----------------------------------------------------------------------------
(* File names *)

\* A file name is text; these are the suffixes the program appends to it.
S_TEST == <<"_", "t", "e", "s", "t">>
S_CSV == <<".", "c", "s", "v">>
S_GZ == <<".", "g", "z">>
S_TEMP_VERIFY == <<"_", "t", "e", "m", "p", "_", "v", "e", "r", "i", "f", "y">> \o S_CSV

filename(a) == a.filename
test_filename(a) == filename(a) \o S_TEST
verify_test_filename(a) == test_filename(a) \o S_TEMP_VERIFY

csv(a) == filename(a) \o S_CSV
csv_gz(a) == filename(a) \o S_CSV \o S_GZ
test_csv(a) == test_filename(a) \o S_CSV
test_csv_gz(a) == test_filename(a) \o S_CSV \o S_GZ

-----------------------------------------------------------------------------
(* Command building *)

\* variant: the probe window is cut at the requested end time
end_time_verify_clamped(a) ==
    IF a.end_time < a.start_time + 1 THEN a.end_time ELSE a.start_time + 1

\* end_time_verify_dt = start_time_dt + timedelta(seconds=1); times are in seconds
end_time_verify(a) == a.start_time + 1

\* base_cmd / base_cmd_test with the placeholders substituted: the retrieval
\* invocation; the wildcard template has no field list placeholder.
retrieval(a, end) ==
    [utility    |-> "CorvilApiStreamingClient.py",
     ip_address |-> ip_address(a),
     rt_class   |-> rt_class(a),
     start_time |-> a.start_time,
     end_time   |-> end,
     fields     |-> IF a.wildcard THEN <<>> ELSE <<field_list(a)>>]

base_cmd(a) == retrieval(a, a.end_time)
base_cmd_test_file(a) == retrieval(a, end_time_verify(a))

C2S == "csv-comma2soh"
TR == "tr"
GZIP == "gzip"
STDOUT == <<>>

\* cmd_suffix of the Linux branch: the pipeline stages and the sink
linux_cmd_suffix(a) ==
    IF a.console /\ a.human THEN [stages |-> <<C2S, TR>>, sink |-> STDOUT]
    ELSE IF a.console THEN [stages |-> <<C2S>>, sink |-> STDOUT]
    ELSE IF ~a.compress /\ a.human THEN [stages |-> <<C2S, TR>>, sink |-> csv(a)]
    ELSE IF a.compress /\ a.human
         THEN [stages |-> <<C2S, TR, GZIP>>, sink |-> csv_gz(a)]
    ELSE IF a.compress THEN [stages |-> <<C2S, GZIP>>, sink |-> csv_gz(a)]
    ELSE [stages |-> <<C2S>>, sink |-> csv(a)]

\* test_file_cmd_suffix of the Linux branch; the two console branches do not
\* assign it.
linux_test_file_cmd_suffix_bound(a) == ~a.console

\* variant: the test extract goes through the stages of the extract itself
linux_test_file_cmd_suffix_as_full(a) ==
    [stages |-> linux_cmd_suffix(a).stages, sink |-> test_csv_gz(a)]

linux_test_file_cmd_suffix(a) ==
    [stages |-> <<C2S, TR, GZIP>>, sink |-> test_csv_gz(a)]

windows_cmd_suffix(a) ==
    IF a.console THEN [stages |-> <<>>, sink |-> STDOUT]
    ELSE [stages |-> <<>>, sink |-> csv(a)]

windows_test_file_cmd_suffix(a) == [stages |-> <<>>, sink |-> test_csv(a)]

cmd_suffix(a, os) ==
    IF os = "linux" THEN linux_cmd_suffix(a) ELSE windows_cmd_suffix(a)

test_file_cmd_suffix(a, os) ==
    IF os = "linux" THEN linux_test_file_cmd_suffix(a)
    ELSE windows_test_file_cmd_suffix(a)

MSG_TEST == "Generating test file for column verification"
MSG_RUN == "Running extract"
MSG_COMPRESS == "Compressing file"

final_test_file_command(a, os) ==
    [msg    |-> MSG_TEST,
     cmd    |-> base_cmd_test_file(a),
     stages |-> test_file_cmd_suffix(a, os).stages,
     sink   |-> test_file_cmd_suffix(a, os).sink]

final_command(a, os) ==
    [msg    |-> MSG_RUN,
     cmd    |-> base_cmd(a),
     stages |-> cmd_suffix(a, os).stages,
     sink   |-> cmd_suffix(a, os).sink]

\* "tar -czf {filename}.csv.gz {filename}.csv"
compress_cmd(a) ==
    [msg    |-> MSG_COMPRESS,
     cmd    |-> [utility |-> "tar", input |-> csv(a)],
     stages |-> <<>>,
     sink   |-> csv_gz(a)]

\* "args.console is False and args.wildcard is False and args.no_verify is False"
run_test_extract(a) == ~a.console /\ ~a.wildcard /\ ~a.no_verify

-----------------------------------------------------------------------------
(* The retrieval tool's output and the files of the run *)

line(text) == text \o <<NL>>
meta == line(<<"#">>)
row == line(<<"1">>)

header_match == join(COMMA, <<ts, px, qty>>)
header_swapped == join(COMMA, <<ts, qty, px>>)
header_short == join(COMMA, <<ts, px>>)

\* header rows the appliance may answer with
Headers == {header_match, header_swapped, header_short}

\* what the retrieval tool streams: on the compressed path five metadata
\* lines precede the header row, on the uncompressed path the header is first
tool_output(stages, header) ==
    IF \E i \in 1..Len(stages) : stages[i] = GZIP
    THEN <<meta, meta, meta, meta, meta, line(header), row>>
    ELSE <<line(header), row>>

FName == <<"f", "o", "o">>

Names == {FName \o S_CSV, FName \o S_CSV \o S_GZ, FName \o S_TEST,
          FName \o S_TEST \o S_CSV, FName \o S_TEST \o S_CSV \o S_GZ,
          FName \o S_TEST \o S_TEMP_VERIFY}

\* text files a user may have left under the name <filename>_test
TestFileContents ==
    {tool_output(<<GZIP>>, h) : h \in Headers} \cup {tool_output(<<>>, header_match)}

ExitCodes == {0, 1}
ExtractNames == {"E1", "E2"}
StartTimes == {0}
EndTimes == {0, 3}
SmtpOutcomes == {"ok", "send_fail", "connect_fail"}
Sizes == {4999, 5000}

-----------------------------------------------------------------------------
(* Helpers of main() *)

inputs == <<args, operating_system, files0, data0>>

\* How the process ends. The handler around main() catches Exception and
\* prints it, so the interpreter then ends normally; SystemExit is not an
\* Exception and carries its code out.
\* variant: no handler, an exception ends the interpreter with status 1
top_level_status_uncaught(kind, code) ==
    IF kind = "SystemExit" THEN code ELSE IF kind = "none" THEN 0 ELSE 1

top_level_status(kind, code) == IF kind = "SystemExit" THEN code ELSE 0

Terminate(kind, code) ==
    /\ pc' = "done"
    /\ exc' = kind
    /\ exit_status' = top_level_status(kind, code)

Raise(kind) == Terminate(kind, 0)
SysExit(code) == Terminate("SystemExit", code)
Return == Terminate("none", 0)

Continue(next) == pc' = next /\ UNCHANGED <<exc, exit_status>>

\* run_command(command, msg): the command runs to completion; a sink file is
\* created by the redirection whatever the exit code is.
executed(c, rc) ==
    [msg |-> c.msg, cmd |-> c.cmd, stages |-> c.stages, sink |-> c.sink, rc |-> rc]

run_command(c, rc, content) ==
    /\ cmds' = Append(cmds, executed(c, rc))
    /\ files' = IF c.sink = STDOUT THEN files ELSE files \cup {c.sink}
    /\ data' = IF c.sink = STDOUT THEN data ELSE [data EXCEPT ![c.sink] = content]

\* variant: the exit code is ignored
run_command_fatal_never(rc) == FALSE

\* a non-zero exit code is fatal for the stage: the run ends with that code
run_command_fatal(rc) == rc # 0

remove(names) ==
    /\ files' = files \ names
    /\ data' = [n \in DOMAIN data |-> IF n \in names THEN <<>> ELSE data[n]]

\* variant: only the plain name is looked for
output_exists_csv_only(a, fs) == csv(a) \in fs

\* "os.path.isfile(filename + '.csv') or
\*  (compress is True and os.path.isfile(filename + '.csv.gz'))"
output_exists(a, fs) == csv(a) \in fs \/ (a.compress /\ csv_gz(a) \in fs)

\* variant: the compressed artifact is left in place
overwrite_removes_csv_only(a) == {csv(a)}

\* the files the overwrite branch removes (each only if it exists)
overwrite_removes(a) == {csv(a), csv_gz(a)}

\* enumerate(f) index of the line copied to the verification file
HEADER_INDEX == 5

\* first_line: the line with index HEADER_INDEX, None (nothing written) when
\* the file is shorter
first_line(lines) ==
    IF Len(lines) > HEADER_INDEX THEN <<lines[HEADER_INDEX + 1]>> ELSE <<>>

\* the file main() opens to copy the header row from
header_source(a) == test_filename(a)

\* the file main() removes after verification
test_extract_removed(a) == test_csv(a)

\* variant: the alert names the probe window instead of the requested one
mail_probe_window(rt, stime, etime, smtp) ==
    [rt_class |-> rt, start_time |-> stime, end_time |-> stime + 1,
     delivered |-> (smtp = "ok")]

\* send_mail: the body carries rt_class and the two times it is given
mail(rt, stime, etime, smtp) ==
    [rt_class |-> rt, start_time |-> stime, end_time |-> etime,
     delivered |-> (smtp = "ok")]

NoRet == [called |-> FALSE, returned |-> FALSE, verified |-> FALSE,
          col_list |-> <<>>, log |-> <<>>]

\* verify_cols(lf, verify_header_filename, verify_field_list, rt_class,
\* start_time, end_time) as a step: compares, then either sends the alert
\* (smtplib.SMTP() may raise; a sendmail error is only logged) or removes the
\* verification file.  `after` is where the caller continues.
verify_cols(header_filename, expected, rt, stime, etime, after) ==
    LET r == compare_cols(data[header_filename], expected)
        result(returned) ==
            [called |-> TRUE, returned |-> returned, verified |-> r.verified,
             col_list |-> r.col_list, log |-> r.log]
    IN  IF r.verified
        THEN /\ remove({header_filename})
             /\ ret' = result(TRUE)
             /\ Continue(after)
             /\ UNCHANGED alerts
        ELSE \E smtp \in SmtpOutcomes :
                IF smtp = "connect_fail"
                THEN /\ ret' = result(FALSE)
                     /\ Raise("ConnectionRefusedError")
                     /\ UNCHANGED <<files, data, alerts>>
                ELSE /\ alerts' = Append(alerts, mail(rt, stime, etime, smtp))
                     /\ ret' = result(TRUE)
                     /\ Continue(after)
                     /\ UNCHANGED <<files, data>>

-----------------------------------------------------------------------------
(* The extract run of main() *)

\* the stages of a run
CANARY == "canary"
VERIFICATION == "verification"
FULL == "full"
COMPRESS == "compress"
MANIFEST == "manifest"

None == <<>>
Some(v) == <<v>>

Args ==
    [mic : {"M1"}, extract_name : ExtractNames,
     start_time : StartTimes, end_time : EndTimes, filename : {FName},
     compress : BOOLEAN, overwrite : BOOLEAN, console : BOOLEAN,
     human : BOOLEAN, manifest : BOOLEAN, mnemonic : {None, Some("MIC1")},
     testing : {"False"}, wildcard : BOOLEAN, no_verify : BOOLEAN]

\* directory contents before the run: earlier outputs and files left under
\* the names the verification step reads and removes
InitialFiles == SUBSET {FName \o S_CSV, FName \o S_CSV \o S_GZ, FName \o S_TEST,
                        FName \o S_TEST \o S_CSV}

Init ==
    /\ args \in Args
    /\ operating_system \in {"linux", "windows"}
    /\ files \in InitialFiles
    /\ \E content \in TestFileContents :
          data = [n \in Names |->
                    IF n = FName \o S_TEST /\ n \in files THEN content ELSE <<>>]
    /\ files0 = files
    /\ data0 = data
    /\ pc = "check_name"
    /\ cmds = <<>>
    /\ alerts = <<>>
    /\ ret = NoRet
    /\ manifests = {}
    /\ exc = "none"
    /\ exit_status = 0 - 1
    /\ computed = <<>>
    /\ trace = <<>>

\* "if extract_name not in valid_extracts[mic].keys(): ... return"
CheckName ==
    /\ pc = "check_name"
    /\ IF args.extract_name \notin DOMAIN valid_extracts[args.mic]
       THEN Return
       ELSE Continue("check_output")
    /\ UNCHANGED <<inputs, computed, trace, files, data, cmds, alerts, ret, manifests>>

\* "Check if output exists"
CheckOutput ==
    /\ pc = "check_output"
    /\ IF output_exists(args, files)
       THEN IF args.overwrite
            THEN remove(overwrite_removes(args)) /\ Continue("build")
            ELSE SysExit(1) /\ UNCHANGED <<files, data>>
       ELSE Continue("build") /\ UNCHANGED <<files, data>>
    /\ UNCHANGED <<inputs, computed, trace, cmds, alerts, ret, manifests>>

\* The suffix branches and "SET TEST FILE and ACTUAL FILE COMMANDS": on Linux
\* final_test_file_command reads test_file_cmd_suffix on every path.
BuildCommands ==
    /\ pc = "build"
    /\ IF operating_system = "linux" /\ ~linux_test_file_cmd_suffix_bound(args)
       THEN Raise("UnboundLocalError")
       ELSE Continue("canary")
    /\ UNCHANGED <<inputs, computed, trace, files, data, cmds, alerts, ret, manifests>>

\* variant: the test extract is run again
after_canary_again(os) == "canary"

\* what follows the test extract: the verification on Linux, the extract
\* itself on Windows
after_canary(os) == IF os = "linux" THEN "gen_verify" ELSE "full"

\* "Run a test extract and verify columns": the test extract
Canary ==
    /\ pc = "canary"
    /\ IF run_test_extract(args)
       THEN \E rc \in ExitCodes, h \in Headers :
               LET c == final_test_file_command(args, operating_system)
               IN  /\ run_command(c, rc, tool_output(c.stages, h))
                   /\ IF run_command_fatal(rc) THEN SysExit(rc)
                      ELSE Continue(after_canary(operating_system))
       ELSE Continue("full") /\ UNCHANGED <<files, data, cmds>>
    /\ trace' = IF run_test_extract(args) THEN Append(trace, CANARY) ELSE trace
    /\ UNCHANGED <<inputs, computed, alerts, ret, manifests>>

\* "Generating verification file": copy the header row
GenVerifyFile ==
    /\ pc = "gen_verify"
    /\ IF header_source(args) \notin files
       THEN Raise("FileNotFoundError") /\ UNCHANGED <<files, data>>
       ELSE /\ files' = files \cup {verify_test_filename(args)}
            /\ data' = [data EXCEPT ![verify_test_filename(args)] =
                                        first_line(data[header_source(args)])]
            /\ Continue("verify")
    /\ UNCHANGED <<inputs, computed, trace, cmds, alerts, ret, manifests>>

\* the verify_cols call of main(); its result is not used
VerifyCols ==
    /\ pc = "verify"
    /\ verify_cols(verify_test_filename(args), verify_field_list(args),
                   rt_class(args), args.start_time, args.end_time, "remove_test")
    /\ trace' = Append(trace, VERIFICATION)
    /\ UNCHANGED <<inputs, computed, cmds, manifests>>

\* "Deleting test extract file"
RemoveTestFile ==
    /\ pc = "remove_test"
    /\ IF test_extract_removed(args) \notin files
       THEN Raise("FileNotFoundError") /\ UNCHANGED <<files, data>>
       ELSE remove({test_extract_removed(args)}) /\ Continue("full")
    /\ UNCHANGED <<inputs, computed, trace, cmds, alerts, ret, manifests>>

\* "Running extract"
Full ==
    /\ pc = "full"
    /\ \E rc \in ExitCodes :
          /\ run_command(final_command(args, operating_system), rc, <<>>)
          /\ IF run_command_fatal(rc) THEN SysExit(rc)
             ELSE IF operating_system = "linux" THEN Continue("compress")
                  ELSE Return
    /\ trace' = Append(trace, FULL)
    /\ UNCHANGED <<inputs, computed, alerts, ret, manifests>>

\* "Compress, if needed": the archive command
Compress ==
    /\ pc = "compress"
    /\ IF args.compress
       THEN \E rc \in ExitCodes :
               /\ run_command(compress_cmd(args), rc, <<>>)
               /\ IF run_command_fatal(rc) THEN SysExit(rc)
                  ELSE Continue("remove_csv")
       ELSE Continue("manifest") /\ UNCHANGED <<files, data, cmds>>
    /\ trace' = IF args.compress THEN Append(trace, COMPRESS) ELSE trace
    /\ UNCHANGED <<inputs, computed, alerts, ret, manifests>>

\* "Deleting uncompressed version"
RemoveCsv ==
    /\ pc = "remove_csv"
    /\ IF csv(args) \notin files
       THEN Raise("FileNotFoundError") /\ UNCHANGED <<files, data>>
       ELSE remove({csv(args)}) /\ Continue("manifest")
    /\ UNCHANGED <<inputs, computed, trace, cmds, alerts, ret, manifests>>

\* the condition under which manifest files are made
make_manifest(a) ==
    a.mnemonic # None /\ ~a.console /\ a.compress /\ a.manifest

last(s) == s[Len(s)]

\* f_name = re.split(r"/", filename)[-1]
f_name(a) == last(split(filename(a), "/"))

\* One character of a pattern against one character of the text: "." stands
\* for any character, the letters, "_" and "/" of the model's names for
\* themselves.
char_matches(p, c) == p = "." \/ p = c

\* the pattern, a sequence of such characters, matches the text at position i
matches_at(pattern, s, i) ==
    /\ i + Len(pattern) - 1 <= Len(s)
    /\ \A k \in 1..Len(pattern) : char_matches(pattern[k], s[i + k - 1])

\* re.split(pattern, s)[0]: the text before the leftmost match, all of the
\* text when there is none
before_first_match(pattern, s) ==
    LET hits == {i \in 1..Len(s) : matches_at(pattern, s, i)}
    IN  IF hits = {} THEN s
        ELSE SubSeq(s, 1, (CHOOSE i \in hits : \A k \in hits : i <= k) - 1)

\* f_path = re.split(f_name, filename)[0]
f_path(a) == before_first_match(f_name(a), filename(a))

\* os.listdir(path) raises FileNotFoundError for the empty path
listdir_raises(path) == path = <<>>

\* the file is directly in the directory (path ends with "/")
in_directory(path, n) ==
    /\ Len(n) > Len(path)
    /\ SubSeq(n, 1, Len(path)) = path
    /\ \A i \in (Len(path) + 1)..Len(n) : n[i] # "/"

\* file_list: the names os.listdir(f_path) gives that are regular files
file_list(a, fs) ==
    {SubSeq(n, Len(f_path(a)) + 1, Len(n)) : n \in {m \in fs : in_directory(f_path(a), m)}}

\* re.match(r"^{f_name}.*.gz", name): the name starts with a match of f_name
\* and has, somewhere after it, any character followed by "gz"
matches_rx(a, name) ==
    /\ matches_at(f_name(a), name, 1)
    /\ \E j \in (Len(f_name(a)) + 1)..(Len(name) - 2) :
          name[j + 1] = "g" /\ name[j + 2] = "z"

S_MANIFEST == <<".", "m", "a", "n", "i", "f", "e", "s", "t">>
S_ERROR == <<".", "e", "r", "r", "o", "r">>

\* re.sub(r".gz", ".manifest", s) from position i on: every leftmost
\* non-overlapping match of any character followed by "gz" is replaced
RECURSIVE sub_gz(_, _)
sub_gz(s, i) ==
    IF i > Len(s) THEN <<>>
    ELSE IF i + 2 <= Len(s) /\ s[i + 1] = "g" /\ s[i + 2] = "z"
         THEN S_MANIFEST \o sub_gz(s, i + 3)
         ELSE <<s[i]>> \o sub_gz(s, i + 1)

SIZE_LIMIT == 5000

\* the name of the manifest of one matched file: ".error" is appended for a
\* small file when testing == "False"
manifestfile(a, name, size) ==
    LET base == sub_gz(name, 1)
    IN  IF size < SIZE_LIMIT /\ a.testing = "False" THEN base \o S_ERROR ELSE base

\* file_lcount(fname): "return i + 1" reads a loop variable that is unbound
\* when the archive holds no line
file_lcount_raises(line_count) == line_count = 0

LineCounts == {0, 1}

\* the orders in which os.listdir can give the names
Orders(S) ==
    {o \in [1..Cardinality(S) -> S] : \A i, j \in 1..Cardinality(S) : o[i] = o[j] => i = j}

\* The loop over file_list from its i-th name on.  written: the manifest
\* files there are afterwards (a manifest written again under the same name
\* replaces the earlier one); exc: the exception that ended the loop.
RECURSIVE write_manifests(_, _, _, _, _, _)
write_manifests(a, order, size, line_count, i, written) ==
    IF i > Len(order) THEN [written |-> written, exc |-> "none"]
    ELSE IF ~matches_rx(a, order[i])
         THEN write_manifests(a, order, size, line_count, i + 1, written)
    ELSE IF file_lcount_raises(line_count[order[i]])
         THEN [written |-> written, exc |-> "UnboundLocalError"]
    ELSE LET name == manifestfile(a, order[i], size[order[i]])
             mf == [name |-> name,
                    record |-> <<a.mnemonic[1], order[i], size[order[i]], 0>>]
         IN  write_manifests(a, order, size, line_count, i + 1,
                             {m \in written : m.name # name} \cup {mf})

\* "Make manifest file"
Manifest ==
    /\ pc = "manifest"
    /\ IF make_manifest(args)
       THEN IF listdir_raises(f_path(args))
            THEN Raise("FileNotFoundError") /\ UNCHANGED <<files, manifests>>
            ELSE LET listed == file_list(args, files)
                 IN  \E order \in Orders(listed), size \in [listed -> Sizes],
                        line_count \in [listed -> LineCounts] :
                        LET r == write_manifests(args, order, size, line_count, 1, manifests)
                        IN  /\ manifests' = r.written
                            /\ files' = files \cup {f_path(args) \o m.name : m \in r.written}
                            /\ IF r.exc = "none" THEN Return ELSE Raise(r.exc)
       ELSE Return /\ UNCHANGED <<files, manifests>>
    /\ trace' = IF make_manifest(args) THEN Append(trace, MANIFEST) ELSE trace
    /\ UNCHANGED <<inputs, computed, data, cmds, alerts, ret>>

Next ==
    \/ CheckName
    \/ CheckOutput
    \/ BuildCommands
    \/ Canary
    \/ GenVerifyFile
    \/ VerifyCols
    \/ RemoveTestFile
    \/ Full
    \/ Compress
    \/ RemoveCsv
    \/ Manifest

Spec == Init /\ [][Next]_vars

-----------------------------------------------------------------------------
(* verify_cols on its own: every header row of up to MaxLen characters       *)
(* against every expected list of up to MaxCols names.  Here args holds the  *)
(* arguments of the call and the header row the verification file holds.    *)

Alphabet == {"a", "b", COMMA}
ColumnNames == {<<"a">>, <<"b">>}

SeqsUpTo(S, n) == UNION {[1..k -> S] : k \in 0..n}

HeaderRows ==
    SeqsUpTo(Alphabet, MaxLen) \cup {line(h) : h \in SeqsUpTo(Alphabet, MaxLen)}

ExpectedLists == SeqsUpTo(ColumnNames, MaxCols) \ {<<>>}

VerifyArgs ==
    [verify_header_filename : {FName \o S_TEST \o S_TEMP_VERIFY},
     verify_field_list : ExpectedLists,
     rt_class : {"C1", "C2"},
     start_time : {0, 1},
     end_time : {0, 3},
     header : HeaderRows]

InitVerify ==
    /\ args \in VerifyArgs
    /\ operating_system = "linux"
    /\ files = {args.verify_header_filename}
    /\ data = [n \in Names |->
                 IF n = args.verify_header_filename /\ args.header # <<>>
                 THEN <<args.header>> ELSE <<>>]
    /\ files0 = files
    /\ data0 = data
    /\ pc = "call"
    /\ cmds = <<>>
    /\ alerts = <<>>
    /\ ret = NoRet
    /\ manifests = {}
    /\ exc = "none"
    /\ exit_status = 0 - 1
    /\ computed = <<>>
    /\ trace = <<>>

VerifyColsCall ==
    /\ pc = "call"
    /\ verify_cols(args.verify_header_filename, args.verify_field_list,
                   args.rt_class, args.start_time, args.end_time, "returned")
    /\ UNCHANGED <<inputs, computed, trace, cmds, manifests>>

NextVerify == VerifyColsCall

SpecVerify == InitVerify /\ [][NextVerify]_vars

-----------------------------------------------------------------------------
(* Properties of verify_cols (checked under SpecVerify) *)

\* the header row of the call, split on comma
HeaderCols == split(strip(args.header, NL), COMMA)

SameColumns(cols, expected) ==
    /\ Len(cols) = Len(expected)
    /\ \A i \in 1..Len(expected) : cols[i] = expected[i]

\* the first (1-based) position at which two equally long lists differ
FirstDifference(cols, expected) ==
    CHOOSE i \in 1..Len(expected) :
        /\ cols[i] # expected[i]
        /\ \A j \in 1..(i - 1) : cols[j] = expected[j]

\* C9: verify_cols reports success exactly when the header row split on comma
\* has as many columns as the expected list and the same name at every
\* position.  When the counts differ it logs the count mismatch with the
\* expected and the actual count and no positional mismatch; when the counts
\* are equal and the lists differ it logs only the first mismatching
\* position, numbered from 1.
C9_VerifyColsResult ==
    ret.called =>
        LET expected == args.verify_field_list
            cols == HeaderCols
        IN  /\ ret.verified <=> SameColumns(cols, expected)
            /\ ret.verified => ret.log = <<>>
            /\ Len(cols) # Len(expected) =>
                  ret.log = << <<"Column count mismatch", Len(expected), Len(cols)>> >>
            /\ (Len(cols) = Len(expected) /\ ~SameColumns(cols, expected)) =>
                  LET p == FirstDifference(cols, expected)
                  IN  ret.log = << <<"Column mismatch at position", p,
                                     expected[p], cols[p]>> >>

\* a header with the right count whose first column is right and whose second
\* is wrong: position 2 is reported
C9_Witness ==
    /\ ret.called
    /\ ~ret.verified
    /\ Len(HeaderCols) = Len(args.verify_field_list)
    /\ Len(ret.log) = 1
    /\ ret.log[1][1] = "Column mismatch at position"
    /\ ret.log[1][2] = 2

\* C10: after verify_cols returns, on a match the verification file has been
\* deleted and no alert was sent; on a mismatch the verification file still
\* exists and exactly one alert was handed to sendmail, carrying the class
\* identifier and the requested start and end time.
C10_VerifyColsEffects ==
    pc = "returned" =>
        /\ ret.verified =>
              /\ args.verify_header_filename \notin files
              /\ alerts = <<>>
        /\ ~ret.verified =>
              /\ args.verify_header_filename \in files
              /\ data[args.verify_header_filename] = data0[args.verify_header_filename]
              /\ Len(alerts) = 1
              /\ alerts[1].rt_class = args.rt_class
              /\ alerts[1].start_time = args.start_time
              /\ alerts[1].end_time = args.end_time

C10_Witness ==
    /\ pc = "returned"
    /\ ~ret.verified
    /\ args.verify_header_filename \in files
    /\ Len(alerts) = 1
    /\ alerts[1].rt_class = "C2"
    /\ alerts[1].end_time = 3

-----------------------------------------------------------------------------
(* Properties of the extract run (checked under Spec) *)

Done == pc = "done"

ValidName(a) == a.extract_name \in DOMAIN valid_extracts[a.mic]

Ran(msg) == \E i \in 1..Len(cmds) : cmds[i].msg = msg
CanaryRan == Ran(MSG_TEST)
FullRan == Ran(MSG_RUN)
AllSucceeded == \A i \in 1..Len(cmds) : cmds[i].rc = 0

\* the canary command that was executed
CanaryCmd == cmds[CHOOSE i \in 1..Len(cmds) : cmds[i].msg = MSG_TEST]

IsCompressed(c) == \E i \in 1..Len(c.stages) : c.stages[i] = GZIP

\* the header row of the output the canary command wrote: line 6 of a
\* compressed output, line 1 of an uncompressed one
CanaryHeader ==
    LET c == CanaryCmd
    IN  strip(IF IsCompressed(c) THEN data[c.sink][6] ELSE data[c.sink][1], NL)

CanaryMatches == split(CanaryHeader, COMMA) = verify_field_list(args)

\* C1 (as claimed): when the canary is run and its header does not match the
\* expected columns, the full retrieval command is never executed and the run
\* creates no primary artifact.
C1_MismatchStopsRun ==
    (CanaryRan /\ CanaryCmd.sink \in files /\ ~CanaryMatches) =>
        /\ ~FullRan
        /\ (files \cap {csv(args), csv_gz(args)}) \subseteq files0

\* C2 (as claimed): the exit status is 0 only when the run succeeds; it is
\* non-zero when the extract name is not in the catalog, when the output
\* pre-exists without overwrite, when the canary schema does not match and
\* when an external command fails.
C2_ExitStatus ==
    Done =>
        /\ ~ValidName(args) => exit_status # 0
        /\ (ValidName(args) /\ output_exists(args, files0) /\ ~args.overwrite) =>
              exit_status # 0
        /\ (CanaryRan /\ CanaryCmd.sink \in files /\ ~CanaryMatches) => exit_status # 0
        /\ ~AllSucceeded => exit_status # 0
        /\ exit_status = 0 => (exc = "none" /\ FullRan)

\* what an aborted run leaves behind: nothing executed, nothing touched
Untouched ==
    /\ cmds = <<>>
    /\ files = files0
    /\ data = data0
    /\ manifests = {}
    /\ alerts = <<>>

\* C3 (as claimed): if <filename>.csv or <filename>.csv.gz exists at the
\* start and overwrite is not set, the run aborts with a non-zero exit status
\* without any external command and without touching a file.
C3_AnyArtifactAborts ==
    (/\ ValidName(args)
     /\ ~args.overwrite
     /\ (csv(args) \in files0 \/ csv_gz(args) \in files0)) =>
        /\ pc \in {"check_name", "check_output", "done"}
        /\ Untouched
        /\ Done => exit_status # 0

\* C3 (amended): if <filename>.csv exists, or compress is set and
\* <filename>.csv.gz exists, at the start of a run whose extract name is in the
\* catalog, and overwrite is not set, the run aborts at the output check with
\* a non-zero exit status, without any external command and without touching
\* a file, whatever the other flags are.
C3_RefuseToClobber ==
    (/\ ValidName(args)
     /\ ~args.overwrite
     /\ (csv(args) \in files0 \/ (args.compress /\ csv_gz(args) \in files0))) =>
        /\ pc \in {"check_name", "check_output", "done"}
        /\ Untouched
        /\ Done => exit_status # 0

\* the compressed artifact alone, with compress set, stops a console run
C3_Witness ==
    /\ Done
    /\ ValidName(args)
    /\ ~args.overwrite
    /\ args.compress
    /\ args.console
    /\ files0 = {csv_gz(args)}
    /\ exit_status = 1
    /\ Untouched

\* the state in which the first external command is about to be executed
BeforeFirstCommand == pc \in {"canary", "full"} /\ cmds = <<>>

\* C4 (as claimed): if overwrite is set, whichever of <filename>.csv and
\* <filename>.csv.gz existed at the start has been deleted before the first
\* external command is executed; a missing file causes no error.
C4_OverwriteDeletesAll ==
    (ValidName(args) /\ args.overwrite) =>
        /\ BeforeFirstCommand =>
              (csv(args) \notin files /\ csv_gz(args) \notin files)
        /\ (Done /\ cmds = <<>>) => exc # "FileNotFoundError"

\* C4 (amended): if overwrite is set and <filename>.csv exists, or compress is
\* set and <filename>.csv.gz exists, then whichever of the two files existed
\* at the start has been deleted before the first external command is
\* executed, whatever the other flags are; a file that is already missing
\* causes no error.
C4_OverwriteDeletesFirst ==
    (/\ ValidName(args)
     /\ args.overwrite
     /\ output_exists(args, files0)) =>
        /\ BeforeFirstCommand =>
              (csv(args) \notin files /\ csv_gz(args) \notin files)
        /\ (Done /\ cmds = <<>>) => exc # "FileNotFoundError"

\* only the plain file existed: it is gone and the missing compressed one
\* raised nothing
C4_Witness ==
    /\ BeforeFirstCommand
    /\ args.overwrite
    /\ ~args.compress
    /\ csv(args) \in files0
    /\ csv_gz(args) \notin files0
    /\ csv(args) \notin files
    /\ exc = "none"

\* C5 (as claimed): a file-mode run with compress, manifest and a mnemonic,
\* no pre-existing output and a canary whose header matches (on the Linux
\* branch, the one that compresses) executes the canary, then the full
\* command over the requested window, ends with <filename>.csv.gz present and
\* emits one manifest record mnemonic|<filename>.csv.gz|<size>|0 for it.
C5_EndToEnd ==
    (/\ Done
     /\ operating_system = "linux"
     /\ ValidName(args)
     /\ ~args.console /\ ~args.wildcard /\ ~args.no_verify
     /\ args.compress /\ args.manifest /\ args.mnemonic # None
     /\ csv(args) \notin files0 /\ csv_gz(args) \notin files0
     /\ AllSucceeded
     /\ CanaryRan => CanaryMatches) =>
        /\ Len(cmds) >= 2
        /\ cmds[1].msg = MSG_TEST
        /\ cmds[2].msg = MSG_RUN
        /\ cmds[2].cmd.start_time = args.start_time
        /\ cmds[2].cmd.end_time = args.end_time
        /\ csv_gz(args) \in files
        /\ \E size \in Sizes :
              {m \in manifests : m.record[2] = csv_gz(args)} =
                  {[name |-> manifestfile(args, csv_gz(args), size),
                    record |-> <<args.mnemonic[1], csv_gz(args), size, 0>>]}

\* the runs that get past the catalog and the output check and in which no
\* external command failed
RunNotAborted ==
    /\ Done
    /\ ValidName(args)
    /\ ~(output_exists(args, files0) /\ ~args.overwrite)
    /\ AllSucceeded

\* C6 (as claimed): the canary command is run and the columns are verified
\* if and only if none of console, wildcard and no_verify is set; when one of
\* them is set no canary command is executed and no verification file is
\* created, and in wildcard mode no command carries a field list.
C6_CanaryIffVerified ==
    RunNotAborted =>
        /\ run_test_extract(args) <=> (CanaryRan /\ ret.called)
        /\ ~run_test_extract(args) =>
              /\ ~CanaryRan
              /\ ~ret.called
              /\ verify_test_filename(args) \notin files
        /\ args.wildcard =>
              \A i \in 1..Len(cmds) :
                  cmds[i].msg \in {MSG_TEST, MSG_RUN} => cmds[i].cmd.fields = <<>>

\* C7 (as claimed): whenever the canary command has been run, the file it
\* wrote its output to no longer exists at the end of the run.
C7_CanaryFileRemoved ==
    (Done /\ CanaryRan /\ CanaryCmd.rc = 0) => CanaryCmd.sink \notin files

\* C8 (as claimed): the header row compared with the expected columns is
\* line 6 of the decompressed canary output when that output is compressed and
\* line 1 when it is not, read from the file the canary command wrote.
C8_HeaderFromCanaryOutput ==
    (ret.called /\ CanaryRan /\ CanaryCmd.sink \in files) =>
        /\ header_source(args) = CanaryCmd.sink
        /\ ret.col_list = split(CanaryHeader, COMMA)

-----------------------------------------------------------------------------
(* The extract run over long and short time windows (SpecWindow).  Times    *)
(* are seconds; the directory holds the files the Linux verification step   *)
(* reads and removes, so that both commands are executed there too.         *)

WindowStartTimes == {0, 59, 86399}
WindowEndTimes == {0, 1, 60, 86400, 259200}

WindowArgs ==
    [mic : {"M1"}, extract_name : ExtractNames,
     start_time : WindowStartTimes, end_time : WindowEndTimes, filename : {FName},
     compress : BOOLEAN, overwrite : {FALSE}, console : BOOLEAN,
     human : BOOLEAN, manifest : {FALSE}, mnemonic : {None},
     testing : {"False"}, wildcard : BOOLEAN, no_verify : BOOLEAN]

InitWindow ==
    /\ args \in WindowArgs
    /\ operating_system \in {"linux", "windows"}
    /\ files = {FName \o S_TEST, FName \o S_TEST \o S_CSV}
    /\ data = [n \in Names |->
                 IF n = FName \o S_TEST THEN tool_output(<<GZIP>>, header_match)
                 ELSE <<>>]
    /\ files0 = files
    /\ data0 = data
    /\ pc = "check_name"
    /\ cmds = <<>>
    /\ alerts = <<>>
    /\ ret = NoRet
    /\ manifests = {}
    /\ exc = "none"
    /\ exit_status = 0 - 1
    /\ computed = <<>>
    /\ trace = <<>>

SpecWindow == InitWindow /\ [][Next]_vars

\* C11: the canary command's window is [start, start + 1 second] for every
\* requested start and end time, and the canary and the full retrieval carry
\* the same device address, class identifier, start time and field list: they
\* differ in nothing but the end time, which for the full command is the
\* requested one.
C11_CanaryWindow ==
    \A i \in 1..Len(cmds) :
        /\ cmds[i].msg = MSG_TEST =>
              /\ cmds[i].cmd.start_time = args.start_time
              /\ cmds[i].cmd.end_time = args.start_time + 1
              /\ \A j \in 1..Len(cmds) :
                    cmds[j].msg = MSG_RUN =>
                        [cmds[j].cmd EXCEPT !.end_time = 0] =
                            [cmds[i].cmd EXCEPT !.end_time = 0]
        /\ cmds[i].msg = MSG_RUN =>
              /\ cmds[i].cmd.start_time = args.start_time
              /\ cmds[i].cmd.end_time = args.end_time

\* a window of several days, and one that ends before the probe does
C11_Witness ==
    /\ Len(cmds) >= 2
    /\ cmds[1].msg = MSG_TEST
    /\ cmds[2].msg = MSG_RUN
    /\ operating_system = "linux"
    /\ \/ (cmds[1].cmd.end_time = 86400 /\ cmds[2].cmd.end_time = 259200)
       \/ (cmds[1].cmd.end_time = 60 /\ cmds[2].cmd.end_time = 0)

-----------------------------------------------------------------------------
(* The expected column list on its own: every decoder extract of up to       *)
(* MaxFields fields and MaxFields appended fields.  Here args holds the       *)
(* decoder extract's configuration.                                           *)

\* longest field sequences of a decoder extract
MaxFields == 2

QUOTE == "\""

\* plain names, a quoted name and a name holding a comma
FieldNames == {<<"a">>, <<"b">>, <<QUOTE, "a", QUOTE>>, <<"a", COMMA, "b">>}
AddedNames == {ts, <<QUOTE, "t", QUOTE>>}

DecoderExtracts ==
    [extract_fields : SeqsUpTo(FieldNames, MaxFields),
     corvil_added_fields : SeqsUpTo(AddedNames, MaxFields)]

InitFields ==
    /\ args \in DecoderExtracts
    /\ operating_system = "linux"
    /\ files = {}
    /\ data = [n \in Names |-> <<>>]
    /\ files0 = files
    /\ data0 = data
    /\ pc = "fields"
    /\ cmds = <<>>
    /\ alerts = <<>>
    /\ ret = NoRet
    /\ manifests = {}
    /\ exc = "none"
    /\ exit_status = 0 - 1
    /\ computed = <<>>
    /\ trace = <<>>

\* lines 402-412 of main() for the configured decoder extract
ExpectedColumns ==
    /\ pc = "fields"
    /\ LET fl == join(COMMA, args.extract_fields)
       IN  computed' = [field_list |-> fl,
                        verify_field_list |->
                            expected_column_list(args.corvil_added_fields, fl)]
    /\ pc' = "computed"
    /\ UNCHANGED <<inputs, trace, files, data, cmds, alerts, ret, manifests, exc, exit_status>>

NextFields == ExpectedColumns

SpecFields == InitFields /\ [][NextFields]_vars

HasComma(name) == \E i \in 1..Len(name) : name[i] = COMMA

Unquoted(names) == [i \in 1..Len(names) |-> remove_char(names[i], QUOTE)]

\* C12 (as stated): for every decoder-extract configuration the expected
\* column list equals the appended fields in their configured order followed
\* by the extract's own fields in their configured order, and is as long as
\* the two sequences together.
C12_ExpectedColumnsAsConfigured ==
    pc = "computed" =>
        /\ computed.verify_field_list = args.corvil_added_fields \o args.extract_fields
        /\ Len(computed.verify_field_list) =
              Len(args.corvil_added_fields) + Len(args.extract_fields)

\* C12 (amended): the expected column list starts with the appended fields,
\* unchanged and in their configured order.  When the extract has at least
\* one field and no field name holds a comma, they are followed by the
\* extract's own fields in their configured order with every double quote
\* removed, and the list is as long as the two sequences together; when the
\* extract has no field they are followed by one empty name.
C12_ExpectedColumns ==
    pc = "computed" =>
        LET added == args.corvil_added_fields
            fields == args.extract_fields
            vfl == computed.verify_field_list
        IN  /\ SubSeq(vfl, 1, Len(added)) = added
            /\ (fields # <<>> /\ \A i \in 1..Len(fields) : ~HasComma(fields[i])) =>
                  /\ vfl = added \o Unquoted(fields)
                  /\ Len(vfl) = Len(added) + Len(fields)
            /\ fields = <<>> => vfl = added \o << <<>> >>

\* one appended field kept with its quotes, a quoted and a plain field
C12_Witness ==
    /\ pc = "computed"
    /\ args.corvil_added_fields = << <<QUOTE, "t", QUOTE>> >>
    /\ args.extract_fields = << <<QUOTE, "a", QUOTE>>, <<"b">> >>
    /\ computed.verify_field_list = << <<QUOTE, "t", QUOTE>>, <<"a">>, <<"b">> >>

-----------------------------------------------------------------------------
(* Properties of the stages of the extract run (checked under Spec) *)

Entered(stage) == \E i \in 1..Len(trace) : trace[i] = stage

\* the four conditions of the manifest step, as the specification lists them
ManifestRequested ==
    ~args.console /\ args.compress /\ args.manifest /\ args.mnemonic # None

\* C13 (as claimed): in a run on the Linux branch whose full retrieval ran and
\* in which no external command failed, the manifest writer runs if and only
\* if console mode is off, compress and manifest were requested and a mnemonic
\* was supplied; when one of the four is missing no manifest file is written.
C13_ManifestIffRequested ==
    (RunNotAborted /\ operating_system = "linux" /\ FullRan) =>
        /\ Entered(MANIFEST) <=> ManifestRequested
        /\ ~ManifestRequested => manifests = {}

\* the place of a stage and of a command in the order of a run
StageRank(stage) ==
    CASE stage = CANARY -> 1
      [] stage = VERIFICATION -> 2
      [] stage = FULL -> 3
      [] stage = COMPRESS -> 4
      [] stage = MANIFEST -> 5

StageOf(msg) ==
    CASE msg = MSG_TEST -> CANARY
      [] msg = MSG_RUN -> FULL
      [] msg = MSG_COMPRESS -> COMPRESS

CommandStages == {CANARY, FULL, COMPRESS}

\* C17: at every point of an extract run the stages entered so far are in the
\* order canary, verification, full, compress, manifest and none was entered
\* twice; the external commands executed so far are one per command stage
\* entered, in the same order, none of them twice, and each has returned its
\* exit code.
C17_StagesInOrder ==
    /\ \A i, j \in 1..Len(trace) : i < j => StageRank(trace[i]) < StageRank(trace[j])
    /\ \A i, j \in 1..Len(cmds) :
          i < j => StageRank(StageOf(cmds[i].msg)) < StageRank(StageOf(cmds[j].msg))
    /\ {StageOf(cmds[i].msg) : i \in 1..Len(cmds)} =
          {trace[i] : i \in 1..Len(trace)} \cap CommandStages
    /\ \A i \in 1..Len(cmds) : cmds[i].rc \in ExitCodes
    /\ Entered(VERIFICATION) <=> ret.called

\* a Linux run that went through canary, verification, full and compress
C17_Witness ==
    /\ trace = <<CANARY, VERIFICATION, FULL, COMPRESS>>
    /\ Len(cmds) = 3
    /\ cmds[1].msg = MSG_TEST /\ cmds[2].msg = MSG_RUN /\ cmds[3].msg = MSG_COMPRESS

ArchiveCmd == cmds[CHOOSE i \in 1..Len(cmds) : cmds[i].msg = MSG_COMPRESS]

C20_ConsoleTouchesNoFile ==
    (args.console /\ ValidName(args)) =>
        /\ ~(pc = "done" /\ exc = "SystemExit" /\ cmds = <<>>)
        /\ files = files0
        /\ ~CanaryRan
        /\ ~ret.called
        /\ manifests = {}

HasStage(c, stage) == \E i \in 1..Len(c.stages) : c.stages[i] = stage

\* C21 (as claimed): a console-mode run with an extract name of the catalog
\* and no output collision has, when it ends, executed exactly one external
\* command, the full retrieval, whose pipeline ends at standard output and
\* holds the delimiter remap exactly when human is set.
C21_ConsoleRunsFullOnce ==
    (/\ Done
     /\ args.console
     /\ ValidName(args)
     /\ ~output_exists(args, files0)) =>
        /\ Len(cmds) = 1
        /\ cmds[1].msg = MSG_RUN
        /\ cmds[1].sink = STDOUT
        /\ HasStage(cmds[1], TR) <=> args.human

\* the canary and the full command have the remap and the compression stage
\* alike
SameStages(c, d) ==
    /\ HasStage(c, TR) <=> HasStage(d, TR)
    /\ HasStage(c, GZIP) <=> HasStage(d, GZIP)

DistinctSink(c) ==
    /\ c.sink # STDOUT
    /\ c.sink # filename(args) \o S_CSV
    /\ c.sink # filename(args) \o S_CSV \o S_GZ

\* C22 (as claimed): whenever a canary command and a full command have been
\* executed in a file-mode run, their pipelines have the same stages (remap
\* present or absent, compression present or absent), and the canary's sink
\* is neither <filename>.csv nor <filename>.csv.gz.
C22_CanaryPipelineAsFull ==
    \A i, j \in 1..Len(cmds) :
        (~args.console /\ cmds[i].msg = MSG_TEST /\ cmds[j].msg = MSG_RUN) =>
            /\ SameStages(cmds[i], cmds[j])
            /\ DistinctSink(cmds[i])

\* C22 (amended): the canary command of a file-mode run sinks to a file that
\* is neither <filename>.csv nor <filename>.csv.gz.  On the Linux branch its
\* pipeline always holds the delimiter remap and the compression and sinks to
\* <filename>_test.csv.gz, whatever human and compress are, while the full
\* command's pipeline holds the remap exactly when human is set and the
\* compression exactly when compress is set: the two have the same stages
\* exactly when both flags are set.  On the Windows branch neither pipeline
\* has a stage and the canary sinks to <filename>_test.csv.
C22_CanaryPipelineFixed ==
    \A i \in 1..Len(cmds) :
        (~args.console /\ cmds[i].msg = MSG_TEST) =>
            /\ DistinctSink(cmds[i])
            /\ operating_system = "linux" =>
                  /\ HasStage(cmds[i], TR) /\ HasStage(cmds[i], GZIP)
                  /\ cmds[i].sink = filename(args) \o S_TEST \o S_CSV \o S_GZ
                  /\ \A j \in 1..Len(cmds) :
                        cmds[j].msg = MSG_RUN =>
                            /\ HasStage(cmds[j], TR) <=> args.human
                            /\ HasStage(cmds[j], GZIP) <=> args.compress
                            /\ SameStages(cmds[i], cmds[j]) <=>
                                  (args.human /\ args.compress)
            /\ operating_system = "windows" =>
                  /\ cmds[i].stages = <<>>
                  /\ cmds[i].sink = filename(args) \o S_TEST \o S_CSV
                  /\ \A j \in 1..Len(cmds) :
                        cmds[j].msg = MSG_RUN => cmds[j].stages = <<>>

\* a plain Linux run: the canary was remapped and compressed, the full
\* command neither
C22_Witness ==
    /\ operating_system = "linux"
    /\ ~args.human /\ ~args.compress
    /\ Len(cmds) = 2
    /\ cmds[1].msg = MSG_TEST /\ cmds[2].msg = MSG_RUN
    /\ HasStage(cmds[1], TR) /\ HasStage(cmds[1], GZIP)
    /\ ~HasStage(cmds[2], TR) /\ ~HasStage(cmds[2], GZIP)

\* an exception other than SystemExit ended main()
ExceptionRaised == exc \notin {"none", "SystemExit"}

-----------------------------------------------------------------------------
(* The manifest block of main() on its own (SpecManifest): the state after   *)
(* the full retrieval of a Linux file-mode run without verification, for an  *)
(* output name with and without a directory part, every value of the         *)
(* manifest flags and of the testing argument, and up to MaxEntries further  *)
(* files next to the output.                                                 *)

\* most files in the output directory besides the output itself
MaxEntries == 2

Dirs == {<<>>, <<"d", "/">>}

TestingValues == {"True", "False", "false"}

\* names next to the output: one with something after ".gz", one with "gz"
\* after another character than ".", one of another prefix, and the output
\* of the canary
EntryNames ==
    {FName \o S_CSV \o S_GZ \o <<".", "t", "m", "p">>,
     FName \o <<"d", ".", "t", "g", "z">>,
     <<"b", "a", "r">> \o S_CSV \o S_GZ,
     FName \o S_TEST \o S_CSV \o S_GZ}

ManifestArgs ==
    [mic : {"M1"}, extract_name : {"E1"}, start_time : {0}, end_time : {3},
     filename : {d \o FName : d \in Dirs},
     compress : BOOLEAN, overwrite : {FALSE}, console : {FALSE},
     human : {FALSE}, manifest : BOOLEAN, mnemonic : {None, Some("MIC1")},
     testing : TestingValues, wildcard : {FALSE}, no_verify : {TRUE}]

InitManifest ==
    /\ args \in ManifestArgs
    /\ operating_system = "linux"
    /\ \E d \in Dirs, E \in SUBSET EntryNames :
          /\ Cardinality(E) <= MaxEntries
          /\ args.filename = d \o FName
          /\ files = {final_command(args, "linux").sink} \cup {d \o e : e \in E}
    /\ data = [n \in Names |-> <<>>]
    /\ files0 = files
    /\ data0 = data
    /\ pc = "manifest"
    /\ cmds = <<executed(final_command(args, "linux"), 0)>> \o
              (IF args.compress THEN <<executed(compress_cmd(args), 0)>> ELSE <<>>)
    /\ alerts = <<>>
    /\ ret = NoRet
    /\ manifests = {}
    /\ exc = "none"
    /\ exit_status = 0 - 1
    /\ computed = <<>>
    /\ trace = IF args.compress THEN <<FULL, COMPRESS>> ELSE <<FULL>>

NextManifest == Manifest

SpecManifest == InitManifest /\ [][NextManifest]_vars

EndsWith(s, suffix) ==
    /\ Len(s) >= Len(suffix)
    /\ SubSeq(s, Len(s) - Len(suffix) + 1, Len(s)) = suffix

StartsWith(s, prefix) ==
    /\ Len(s) >= Len(prefix)
    /\ SubSeq(s, 1, Len(prefix)) = prefix

\* the testing argument says that the run is a test run
TestRun == args.testing = "True"

\* C14 (as claimed): every manifest that is written carries the .error suffix
\* exactly when the size in its record is below 5000 and the run is not a
\* test run, whatever the value of the testing argument.
C14_ErrorSuffix ==
    \A m \in manifests :
        EndsWith(m.name, S_ERROR) <=> (m.record[3] < 5000 /\ ~TestRun)

\* the output directory and the name of the output in it
OutputDir ==
    LET slashes == {i \in 1..Len(args.filename) : args.filename[i] = "/"}
    IN  IF slashes = {} THEN <<>>
        ELSE SubSeq(args.filename, 1, CHOOSE i \in slashes : \A k \in slashes : k <= i)

Prefix == SubSeq(args.filename, Len(OutputDir) + 1, Len(args.filename))

\* the names in the output directory matching <prefix>.*\.gz
Artifacts(fs) ==
    {SubSeq(n, Len(OutputDir) + 1, Len(n)) :
        n \in {m \in fs : /\ in_directory(OutputDir, m)
                          /\ StartsWith(SubSeq(m, Len(OutputDir) + 1, Len(m)), Prefix)
                          /\ EndsWith(m, S_GZ)}}

WithoutGz(n) == SubSeq(n, 1, Len(n) - Len(S_GZ))

\* C15 (as claimed): when the manifest writer has run, there is exactly one
\* manifest for each file of the output directory whose name matches
\* <prefix>.*\.gz, files from before the run included, and none for any other
\* file; it is named after the artifact with .manifest in place of the final
\* .gz (with or without the .error suffix) and holds the record
\* mnemonic|filename|size|0; every file of before the run is still there.
C15_OneManifestPerArtifact ==
    (pc = "done" /\ Entered(MANIFEST)) =>
        /\ \A n \in Artifacts(files0) :
              \E size \in Sizes :
                 {m \in manifests : m.record[2] = n} =
                    {[name |-> manifestfile(args, n, size),
                      record |-> <<args.mnemonic[1], n, size, 0>>]}
        /\ \A m \in manifests :
              /\ m.record[2] \in Artifacts(files0)
              /\ \/ m.name = WithoutGz(m.record[2]) \o S_MANIFEST
                 \/ m.name = WithoutGz(m.record[2]) \o S_MANIFEST \o S_ERROR
        /\ files0 \subseteq files

-----------------------------------------------------------------------------
(* The catalog on its own (SpecCatalog): get_valid_extracts on every         *)
(* configuration of market M1 with two extract definitions in which each of  *)
(* the three keys is absent, empty or set, and of a second market with or    *)
(* without extracts; then the listing of "list" and the name check of        *)
(* "extract".  Here args holds the configuration and the command line.       *)

Keys == {"cne", "rt-class", "decoder_extracts"}

\* the values of a key: the empty text and a name
KeyValues == {"", "v"}

ExtractDefinitions == UNION {[K -> KeyValues] : K \in SUBSET Keys}

SecondMarkets ==
    {[dbms |-> "db2"],
     [dbms |-> "db2", extracts |-> [E1 |-> [k \in Keys |-> "v"]]]}

CatalogConfigs ==
    {[markets |-> [M1 |-> [extracts |-> [E1 |-> d1, E2 |-> d2]], M2 |-> m2]] :
        d1 \in ExtractDefinitions, d2 \in ExtractDefinitions, m2 \in SecondMarkets}

\* E9 is defined nowhere
RequestedNames == {"E1", "E2", "E9"}

\* the mic is one of the catalog's markets (choices=valid_extracts.keys())
InitCatalog ==
    /\ \E config \in CatalogConfigs, mode \in {"list", "extract"},
          name \in RequestedNames :
          \E mic \in DOMAIN get_valid_extracts(config) :
             args = [config |-> config, execution_mode |-> mode,
                     mic |-> mic, extract_name |-> name]
    /\ operating_system = "linux"
    /\ files = {}
    /\ data = [n \in Names |-> <<>>]
    /\ files0 = files
    /\ data0 = data
    /\ pc = "catalog"
    /\ cmds = <<>>
    /\ alerts = <<>>
    /\ ret = NoRet
    /\ manifests = {}
    /\ exc = "none"
    /\ exit_status = 0 - 1
    /\ computed = <<>>
    /\ trace = <<>>

\* "Build valid extracts"
BuildCatalog ==
    /\ pc = "catalog"
    /\ computed' = [valid_extracts |-> get_valid_extracts(args.config), listed |-> {}]
    /\ pc' = "mode"
    /\ UNCHANGED <<inputs, trace, files, data, cmds, alerts, ret, manifests, exc, exit_status>>

\* execution_mode == "list": list_extracts prints the catalog's entries of the mic
ListExtracts ==
    /\ pc = "mode"
    /\ args.execution_mode = "list"
    /\ computed' = [computed EXCEPT !.listed = DOMAIN computed.valid_extracts[args.mic]]
    /\ Return
    /\ UNCHANGED <<inputs, trace, files, data, cmds, alerts, ret, manifests>>

\* execution_mode == "extract": an extract name that is not in the catalog is
\* answered with the listing and the run returns
SelectExtract ==
    /\ pc = "mode"
    /\ args.execution_mode = "extract"
    /\ IF args.extract_name \notin DOMAIN computed.valid_extracts[args.mic]
       THEN /\ computed' = [computed EXCEPT
                               !.listed = DOMAIN computed.valid_extracts[args.mic]]
            /\ Return
       ELSE /\ UNCHANGED computed
            /\ Continue("check_output")
    /\ UNCHANGED <<inputs, trace, files, data, cmds, alerts, ret, manifests>>

NextCatalog ==
    \/ BuildCatalog
    \/ ListExtracts
    \/ SelectExtract

SpecCatalog == InitCatalog /\ [][NextCatalog]_vars

\* the markets of the configuration that have extracts
MarketsWithExtracts ==
    {k \in DOMAIN args.config.markets : "extracts" \in DOMAIN args.config.markets[k]}

Definitions(k) == args.config.markets[k].extracts

\* all three keys are present and none is empty
Complete(definition) ==
    \A key \in Keys : key \in DOMAIN definition /\ definition[key] # ""

CompleteNames(k) == {e \in DOMAIN Definitions(k) : Complete(Definitions(k)[e])}

\* C16: the catalog has an entry for exactly the markets that have extracts,
\* and under each of them exactly the extract definitions in which cne,
\* rt-class and decoder_extracts are all present and non-empty, each with its
\* configured properties; "list" lists exactly those, and an extract run goes
\* on past the name check exactly when the requested name is one of them.
C16_CatalogIffComplete ==
    pc # "catalog" =>
        /\ DOMAIN computed.valid_extracts = MarketsWithExtracts
        /\ \A k \in MarketsWithExtracts :
              /\ DOMAIN computed.valid_extracts[k] = CompleteNames(k)
              /\ \A e \in CompleteNames(k) :
                    computed.valid_extracts[k][e] = Definitions(k)[e]
        /\ (pc = "done" /\ args.execution_mode = "list") =>
              computed.listed = CompleteNames(args.mic)
        /\ args.execution_mode = "extract" =>
              /\ pc = "check_output" => args.extract_name \in CompleteNames(args.mic)
              /\ pc = "done" =>
                    /\ args.extract_name \notin CompleteNames(args.mic)
                    /\ computed.listed = CompleteNames(args.mic)
                    /\ exit_status = 0

\* E1 is configured with an empty rt-class and requested: it is neither in the
\* catalog nor selected, while the complete E2 is listed
C16_Witness ==
    /\ pc = "done"
    /\ args.execution_mode = "extract"
    /\ args.extract_name = "E1"
    /\ args.mic = "M1"
    /\ DOMAIN args.config.markets.M1.extracts.E1 = Keys
    /\ args.config.markets.M1.extracts.E1["rt-class"] = ""
    /\ args.config.markets.M1.extracts.E1["cne"] = "v"
    /\ DOMAIN computed.valid_extracts["M1"] = {"E2"}
    /\ computed.listed = {"E2"}

====
